---- MODULE Spec2Model ----
(***************************************************************************)
(* Credit payment-schedule generation, the CBR key-rate store with its     *)
(* point / average queries, the historical-rate recalculation of a         *)
(* schedule, concurrent updates of the store and the bulk upload of        *)
(* credits (backend/app/routers/credits.py, services/cbr_service.py,       *)
(* models/payment_schedule.py, models/cbr_key_rate.py).                    *)
(*                                                                         *)
(* Conventions.                                                            *)
(*  - A datetime is an integer: the number of ticks since 00:00 of         *)
(*    1 January of BaseYear, TicksPerDay ticks to a day.  year/month/day   *)
(*    are recovered by YearOf/MonthOf/DayOf, as datetime's fields.         *)
(*  - An Optional value is a set: None is {} and a present value v is {v}. *)
(*  - A float is an exact rational <<n, d>> in lowest terms (d > 0);       *)
(*    binary rounding of floats is not modelled.                           *)
(*  - An intermediate value is bound as the element of a one-element set   *)
(*    ({ F(x) : x \in {e} }), which evaluates e once, like an assignment   *)
(*    to a local variable.                                                 *)
(***************************************************************************)
EXTENDS Integers, Sequences, FiniteSets, TLC

VARIABLES
    \* generate_payment_schedule (credits.py 65-181)
    credit,                \* the CreditObligation the schedule is generated for
    payment_day_override,  \* Optional day of month
    current_start,         \* loop variable
    period_num,            \* loop variable
    payment_entries,       \* the PaymentSchedule rows built so far
    gen_pc,                \* "loop" while in the while loop, "done" after it
    \* the key-rate store and CBRService (cbr_service.py, cbr_key_rate.py)
    cbr_key_rates,         \* the committed rows of table cbr_key_rates, by id
    response,              \* what the most recent CBRService call returned
    n_updates,             \* number of update_key_rates calls so far
    \* recalculate_interest_with_historical_rates (credits.py 700-793)
    payment_schedules,     \* the committed rows of table payment_schedules
    payment_schedule,      \* the rows loaded into the request's session
    recalculated_periods,  \* the report entries built so far
    recalc_pc,             \* "loop" while the request is in its for loop
    recalc_response,       \* what the most recent request returned
    current_date,          \* datetime.now() of the request
    \* update_key_rates run by several requests at a time (cbr_service.py 335-357)
    sessions,              \* per request: its key_rates, loop position and session
    \* upload_credit_data (credits.py 326-480)
    upload                 \* the file, and what the request made of it

genVars == <<credit, payment_day_override, current_start, period_num,
             payment_entries, gen_pc>>

storeVars == <<cbr_key_rates, response, n_updates>>

recalcVars == <<payment_schedules, payment_schedule, recalculated_periods,
                recalc_pc, recalc_response, current_date>>

ingestVars == <<sessions>>

uploadVars == <<upload>>

vars == <<genVars, storeVars, recalcVars, ingestVars, uploadVars>>

----------------------------------------------------------------------------
(* Bounds of the model *)

BaseYear == 2024
\* credits end in BaseYear, the year after it, or BaseYear + LongSpan
LongSpan == 9
TicksPerDay == 2
\* update_key_rates is called at most MaxUpdates times
MaxUpdates == 2
\* rate queries range over the days 0..MaxQueryDay after 1 January of BaseYear
MaxQueryDay == 6
\* update_key_rates asks the sources for the last DaysBack days
DaysBack == 2

----------------------------------------------------------------------------
(* Optional values and exact rationals *)

None == {}
Some(v) == {v}
Val(o) == CHOOSE v \in o : TRUE

Abs(n) == IF n < 0 THEN -n ELSE n

RECURSIVE GCD(_, _)
GCD(a, b) ==
    IF b = 0 THEN a
    ELSE CHOOSE g \in { GCD(x[1], x[2]) : x \in {<<b, a % b>>} } : TRUE

\* the rational n/d (d > 0) in lowest terms
Rat(n, d) ==
    CHOOSE r \in { <<x[1] \div x[3], x[2] \div x[3]>> :
                     x \in {<<n, d, GCD(Abs(n), d)>>} } : TRUE
RatInt(n) == <<n, 1>>
RatAdd(x, y) == Rat(x[1] * y[2] + y[1] * x[2], x[2] * y[2])
RatSub(x, y) == Rat(x[1] * y[2] - y[1] * x[2], x[2] * y[2])
RatMul(x, y) == Rat(x[1] * y[1], x[2] * y[2])
RatIsZero(x) == x[1] = 0

\* no CBRService call has been made and the table is empty
NoResponse ==
    [op |-> "none", args |-> <<>>, result |-> None, count |-> None, calls |-> <<>>]

StoreIdle ==
    /\ cbr_key_rates = <<>>
    /\ response = NoResponse
    /\ n_updates = 0

NoRecalcResponse == [status |-> 0, recalculated_periods |-> <<>>, summary |-> None]

\* no schedule is stored and no recalculation has been requested
RecalcIdle ==
    /\ payment_schedules = <<>>
    /\ payment_schedule = <<>>
    /\ recalculated_periods = <<>>
    /\ recalc_pc = "idle"
    /\ recalc_response = NoRecalcResponse
    /\ current_date = 0

\* the requests that run update_key_rates at the same time
Sessions == {"first", "second"}

NoSession == [pc |-> "idle", key_rates |-> <<>>, i |-> 1, dirty |-> <<>>, new |-> <<>>]

\* no update_key_rates request is under way
IngestIdle == sessions = [s \in Sessions |-> NoSession]

NoUpload ==
    [pc |-> "idle", df |-> <<>>, credits |-> <<>>, errors |-> <<>>, generated |-> <<>>]

\* no file has been uploaded
UploadIdle == upload = NoUpload

----------------------------------------------------------------------------
(* datetime and calendar *)

IsLeap(y) == (y % 4 = 0 /\ y % 100 # 0) \/ y % 400 = 0

\* calendar.monthrange(year, month)[1]
monthrange(y, m) ==
    IF m = 2 THEN (IF IsLeap(y) THEN 29 ELSE 28)
    ELSE IF m \in {4, 6, 9, 11} THEN 30 ELSE 31

DaysInYear(y) == IF IsLeap(y) THEN 366 ELSE 365

RECURSIVE DaysBeforeYear(_)
DaysBeforeYear(y) ==
    IF y <= BaseYear THEN 0 ELSE DaysBeforeYear(y - 1) + DaysInYear(y - 1)

RECURSIVE DaysBeforeMonth(_, _)
DaysBeforeMonth(y, m) ==
    IF m <= 1 THEN 0 ELSE DaysBeforeMonth(y, m - 1) + monthrange(y, m - 1)

\* datetime(year, month, day) at tick t of the day
datetime(y, m, d, t) ==
    (DaysBeforeYear(y) + DaysBeforeMonth(y, m) + (d - 1)) * TicksPerDay + t

ValidDate(y, m, d) == m \in 1..12 /\ d >= 1 /\ d <= monthrange(y, m)

Ordinal(dt) == dt \div TicksPerDay
TickOf(dt) == dt % TicksPerDay

\* the years a datetime of the model can lie in
Years == BaseYear..(BaseYear + LongSpan + 1)

\* dt.year, dt.month, dt.day
YearOf(dt) ==
    CHOOSE y \in Years :
        DaysBeforeYear(y) <= Ordinal(dt) /\ Ordinal(dt) < DaysBeforeYear(y + 1)

MonthOf(dt) ==
    CHOOSE m \in 1..12 :
        \E y \in {YearOf(dt)} :
            /\ DaysBeforeYear(y) + DaysBeforeMonth(y, m) <= Ordinal(dt)
            /\ Ordinal(dt) < DaysBeforeYear(y) + DaysBeforeMonth(y, m) + monthrange(y, m)

DayOf(dt) ==
    CHOOSE d \in 1..31 :
        \E y \in {YearOf(dt)} : \E m \in {MonthOf(dt)} :
            datetime(y, m, d, TickOf(dt)) = dt

\* (b - a).days of a timedelta: whole days, rounded towards minus infinity
TimedeltaDays(a, b) == (b - a) \div TicksPerDay

\* dt + timedelta(days=n)
PlusDays(dt, n) == dt + n * TicksPerDay

----------------------------------------------------------------------------
(* PaymentSchedule (models/payment_schedule.py) *)

DaysPerYear == 365
PercentBase == 100

Truthy(o) == o # None /\ Val(o) # 0
TruthyRat(o) == o # None /\ ~RatIsZero(Val(o))

\* PaymentSchedule.calculate_period_days
calculate_period_days(start_date, end_date) == TimedeltaDays(start_date, end_date)

\* PaymentSchedule.calculate_interest_amount:
\* principal * (rate / 100) * (days / 365)
calculate_interest_amount(principal, rate, days) ==
    Rat(principal * rate[1] * days, rate[2] * PercentBase * DaysPerYear)

\* calculate_financials, first if: period_days
SetPeriodDays(p) ==
    [p EXCEPT !.period_days =
        Some(calculate_period_days(p.period_start_date, p.period_end_date))]

\* calculate_financials, second if: interest_amount
SetInterestAmount(p) ==
    IF Truthy(p.principal_amount) /\ TruthyRat(p.interest_rate) /\ Truthy(p.period_days)
    THEN [p EXCEPT !.interest_amount =
             Some(calculate_interest_amount(Val(p.principal_amount),
                                            Val(p.interest_rate),
                                            Val(p.period_days)))]
    ELSE p

\* calculate_financials, third if: total_payment
SetTotalPayment(p) ==
    IF Truthy(p.principal_amount) /\ TruthyRat(p.interest_amount)
    THEN [p EXCEPT !.total_payment = p.interest_amount]
    ELSE p

\* PaymentSchedule.calculate_financials, applied to a row p
calculate_financials(p) ==
    CHOOSE r \in
        { SetTotalPayment(p2) :
            p2 \in { SetInterestAmount(p1) :
                       p1 \in { SetPeriodDays(p0) : p0 \in {p} } } } : TRUE

----------------------------------------------------------------------------
(* generate_payment_schedule (routers/credits.py) *)

SafetyCap == 100

PaymentFrequency == {"MONTHLY", "QUARTERLY", "SEMI_ANNUAL", "ANNUAL"}
PaymentType == {"ANNUITY", "DIFFERENTIATED", "BULLET", "INTEREST_ONLY"}

\* period_increment.get(credit.payment_frequency, 1)
period_increment(freq) ==
    CASE freq = "MONTHLY" -> 1
      [] freq = "QUARTERLY" -> 3
      [] freq = "SEMI_ANNUAL" -> 6
      [] freq = "ANNUAL" -> 12
      [] OTHER -> 1

\* new_month = current_month + month_increment, rolled over the year end
RECURSIVE RollMonths(_, _)
RollMonths(new_year, new_month) ==
    IF new_month > 12 THEN RollMonths(new_year + 1, new_month - 12)
    ELSE <<new_year, new_month>>

\* mutant of TargetDay: the payment day is ignored
TargetDay_MonthEnd(override, new_year, new_month) == monthrange(new_year, new_month)

\* the day of the month the period is to end on
TargetDay(override, new_year, new_month) ==
    IF Truthy(override)
    THEN (IF Val(override) < monthrange(new_year, new_month)
          THEN Val(override) ELSE monthrange(new_year, new_month))
    ELSE monthrange(new_year, new_month)

\* current_start.replace(year=, month=, day=), with the ValueError fallback
ReplaceDate(cur, new_year, new_month, target_day) ==
    IF ValidDate(new_year, new_month, target_day)
    THEN datetime(new_year, new_month, target_day, TickOf(cur))
    ELSE datetime(new_year, new_month, monthrange(new_year, new_month), TickOf(cur))

\* period_end of the period that starts at cur
PeriodEnd(c, override, cur) ==
    CHOOSE period_end \in
        { IF candidate > c.end_date THEN c.end_date ELSE candidate :
            candidate \in
              { ReplaceDate(cur, ym[1], ym[2], TargetDay(override, ym[1], ym[2])) :
                  ym \in { RollMonths(YearOf(cur),
                                     MonthOf(cur) + period_increment(c.payment_frequency)) } } } :
        TRUE

\* principal_for_period: the full principal in every branch
PrincipalForPeriod(c, period_end) ==
    IF c.payment_type = "BULLET"
    THEN (IF period_end >= c.end_date THEN c.principal_amount ELSE c.principal_amount)
    ELSE IF c.payment_type = "INTEREST_ONLY" THEN c.principal_amount
    ELSE c.principal_amount

\* mutant of NewPaymentSchedule: the base rate of a period is the latest
\* stored key rate whenever the rate table holds one
NewPaymentSchedule_FromStore(c, override, cur, num) ==
    CHOOSE row \in
      { calculate_financials(
          [ period_number     |-> num,
            period_start_date |-> cur,
            period_end_date   |-> period_end,
            payment_date      |-> period_end,
            principal_amount  |-> Some(PrincipalForPeriod(c, period_end)),
            interest_rate     |-> Some(RatAdd(base, c.credit_spread)),
            base_rate         |-> Some(base),
            spread            |-> Some(c.credit_spread),
            period_days       |-> None,
            interest_amount   |-> None,
            total_payment     |-> None ]) :
          period_end \in {PeriodEnd(c, override, cur)},
          base \in {IF cbr_key_rates = <<>> THEN c.base_rate_value
                    ELSE RatInt(cbr_key_rates[Len(cbr_key_rates)].rate)} } : TRUE

\* the PaymentSchedule row of one loop iteration
NewPaymentSchedule(c, override, cur, num) ==
    CHOOSE row \in
      { calculate_financials(
          [ period_number     |-> num,
            period_start_date |-> cur,
            period_end_date   |-> period_end,
            payment_date      |-> period_end,
            principal_amount  |-> Some(PrincipalForPeriod(c, period_end)),
            interest_rate     |-> Some(RatAdd(c.base_rate_value, c.credit_spread)),
            base_rate         |-> Some(c.base_rate_value),
            spread            |-> Some(c.credit_spread),
            period_days       |-> None,
            interest_amount   |-> None,
            total_payment     |-> None ]) :
          period_end \in {PeriodEnd(c, override, cur)} } : TRUE

\* mutant of NextStart: the next period starts the day after the period end
NextStart_DayAfter(row) == PlusDays(row.period_end_date, 1)

\* where the loop continues from
NextStart(row) == row.period_end_date

\* mutant of CapReached: the safety check is missing
CapReached_Never(num) == FALSE

\* the safety check that ends the loop
CapReached(num) == num > SafetyCap

\* one iteration of "while current_start < credit.end_date"
GenerateIteration ==
    /\ gen_pc = "loop"
    /\ current_start < credit.end_date
    /\ \E row \in {NewPaymentSchedule(credit, payment_day_override, current_start,
                                      period_num)} :
          /\ payment_entries' = Append(payment_entries, row)
          /\ current_start' = NextStart(row)
          /\ period_num' = period_num + 1
          /\ gen_pc' = IF CapReached(period_num + 1) THEN "done" ELSE "loop"
    /\ UNCHANGED <<credit, payment_day_override>>
    /\ UNCHANGED <<storeVars, recalcVars, ingestVars, uploadVars>>

\* the loop condition fails: the entries are saved and returned
GenerateReturn ==
    /\ gen_pc = "loop"
    /\ ~(current_start < credit.end_date)
    /\ gen_pc' = "done"
    /\ UNCHANGED <<credit, payment_day_override, current_start, period_num,
                   payment_entries>>
    /\ UNCHANGED <<storeVars, recalcVars, ingestVars, uploadVars>>

\* the inputs of the model
EdgeTicks == {0, TicksPerDay - 1}

StartDates ==
    { datetime(BaseYear, md[1], md[2], t) :
        md \in { x \in {1, 2, 11} \X {1, 29, 31} : ValidDate(BaseYear, x[1], x[2]) },
        t \in EdgeTicks }

EndDates ==
    { datetime(y, m, d, t) :
        y \in {BaseYear, BaseYear + 1, BaseYear + LongSpan},
        m \in {1, 6}, d \in {1, 15}, t \in EdgeTicks }

Overrides == {None, Some(15), Some(31)}

CreditInputs ==
    [ start_date : StartDates, end_date : EndDates,
      payment_frequency : PaymentFrequency, payment_type : {"INTEREST_ONLY"},
      principal_amount : {1000}, base_rate_indicator : {"KEY_RATE"},
      base_rate_value : {RatInt(16)}, credit_spread : {RatInt(3)} ]
    \cup
    [ start_date : {datetime(BaseYear, 1, 1, 0)},
      end_date : {datetime(BaseYear + 1, 1, 1, 0)},
      payment_frequency : {"MONTHLY", "ANNUAL"}, payment_type : PaymentType,
      principal_amount : {1000}, base_rate_indicator : {"KEY_RATE", "LIBOR"},
      base_rate_value : {RatInt(0), RatInt(16)},
      credit_spread : {RatInt(0), RatInt(3)} ]
    \cup
    \* rows of an uploaded file, which no schema validator has seen
    [ start_date : {datetime(BaseYear, 1, 1, 0)},
      end_date : {datetime(BaseYear, 4, 1, 0)},
      payment_frequency : {"MONTHLY"}, payment_type : {"INTEREST_ONLY"},
      principal_amount : {0, -1000}, base_rate_indicator : {"KEY_RATE"},
      base_rate_value : {RatInt(16)}, credit_spread : {RatInt(3)} ]

GenInit ==
    /\ credit \in CreditInputs
    /\ payment_day_override \in Overrides
    /\ current_start = credit.start_date
    /\ period_num = 1
    /\ payment_entries = <<>>
    /\ gen_pc = "loop"
    /\ StoreIdle
    /\ RecalcIdle
    /\ IngestIdle
    /\ UploadIdle

GenNext == GenerateIteration \/ GenerateReturn

GenSpec == GenInit /\ [][GenNext]_vars

\* The loop is a sequential program: it keeps running until it returns.  The
\* fair specification runs a cross-section of the credits (short, long, and
\* longer than SafetyCap months; every frequency; with and without payment day).
FairCredits ==
    { c \in CreditInputs :
        /\ c.start_date \in {datetime(BaseYear, 1, 1, 0),
                             datetime(BaseYear, 1, 31, TicksPerDay - 1)}
        /\ c.end_date \in {datetime(BaseYear, 1, 15, 0),
                           datetime(BaseYear + 1, 1, 1, 0),
                           datetime(BaseYear + LongSpan, 6, 15, TicksPerDay - 1)}
        /\ c.payment_type = "INTEREST_ONLY" }

GenFairInit == GenInit /\ credit \in FairCredits

GenFairSpec == GenFairInit /\ [][GenNext]_vars /\ WF_vars(GenNext)

----------------------------------------------------------------------------
(* CBRKeyRate and CBRService: the key-rate store (cbr_service.py) *)

EffectiveLag == 2

Min(a, b) == IF a < b THEN a ELSE b
Max(a, b) == IF a > b THEN a ELSE b

\* a rate_data dict as the fetchers build it: effective two days after the date
RateData(date, rate) ==
    [date |-> date, effective_date |-> PlusDays(date, EffectiveLag), rate |-> rate]

\* query(CBRKeyRate).filter(CBRKeyRate.date == rate_data['date']).first():
\* the ids of the rows the query can return.  The session is made with
\* autoflush=False (database.py:22), so the query reads the table and does not
\* see the rows added earlier in the same loop; no ORDER BY picks among equals.
ExistingRate(rows, rate_data) == {i \in DOMAIN rows : rows[i].date = rate_data.date}

\* existing_rate.rate = ..., existing_rate.effective_date = ...
UpdateExisting(rows, i, rate_data) ==
    [rows EXCEPT ![i] = [date |-> rows[i].date,
                         effective_date |-> rate_data.effective_date,
                         rate |-> rate_data.rate]]

\* CBRKeyRate(date=, effective_date=, rate=), added to the session
NewRate(rate_data) ==
    [date |-> rate_data.date, effective_date |-> rate_data.effective_date,
     rate |-> rate_data.rate]

\* "for rate_data in key_rates: ..." followed by commit: the tables it can leave.
\* rows is the table (with the updates made so far), pending the added rows.
RECURSIVE UpsertLoop(_, _, _)
UpsertLoop(rows, pending, key_rates) ==
    IF key_rates = <<>> THEN {rows \o pending}
    ELSE IF ExistingRate(rows, Head(key_rates)) # {}
    THEN UNION { UpsertLoop(UpdateExisting(rows, i, Head(key_rates)), pending,
                            Tail(key_rates)) :
                   i \in ExistingRate(rows, Head(key_rates)) }
    ELSE UpsertLoop(rows, Append(pending, NewRate(Head(key_rates))), Tail(key_rates))

\* CBRKeyRate.get_latest_rate: order_by(effective_date.desc()).first();
\* the records it can return (None when the table is empty)
get_latest_rate(rows) ==
    IF rows = <<>> THEN {None}
    ELSE { Some(rows[i]) :
             i \in { k \in DOMAIN rows :
                       \A j \in DOMAIN rows :
                           rows[j].effective_date <= rows[k].effective_date } }

\* CBRKeyRate.get_rate_on_date: filter(effective_date <= target_date)
\* .order_by(effective_date.desc()).first(); the records it can return
get_rate_on_date(rows, target_date) ==
    IF \A i \in DOMAIN rows : rows[i].effective_date > target_date THEN {None}
    ELSE { Some(rows[i]) :
             i \in { k \in DOMAIN rows :
                       /\ rows[k].effective_date <= target_date
                       /\ \A j \in DOMAIN rows :
                             rows[j].effective_date <= target_date =>
                                 rows[j].effective_date <= rows[k].effective_date } }

\* mutant of RateOfRecord: a default rate stands in for a missing record
RateOfRecord_Default(rate_record) ==
    IF rate_record # None THEN Some(RatInt(Val(rate_record).rate))
    ELSE Some(RatInt(16))

\* "rate_record.rate if rate_record else None"
RateOfRecord(rate_record) ==
    IF rate_record # None THEN Some(RatInt(Val(rate_record).rate)) ELSE None

\* the ids in S ordered by effective_date, in every order equal dates allow
RECURSIVE OrderByEffectiveDate(_, _)
OrderByEffectiveDate(rows, S) ==
    IF S = {} THEN {<<>>}
    ELSE UNION { { <<rows[i]>> \o rest : rest \in OrderByEffectiveDate(rows, S \ {i}) } :
                   i \in { k \in S : \A j \in S :
                                 rows[k].effective_date <= rows[j].effective_date } }

\* filter(effective_date >= start_date, effective_date <= end_date)
\* .order_by(effective_date).all(): the lists it can return
RatesInPeriod(rows, start_date, end_date) ==
    OrderByEffectiveDate(rows,
        { i \in DOMAIN rows : /\ rows[i].effective_date >= start_date
                              /\ rows[i].effective_date <= end_date })

\* days_effective of rates[i]
DaysEffective(rates, i, start_date, end_date) ==
    TimedeltaDays(Max(rates[i].effective_date, start_date),
                  IF i + 1 <= Len(rates)
                  THEN Min(rates[i + 1].effective_date, end_date)
                  ELSE end_date)

\* <<weighted_sum, total_weight>> after the first n rates of the for loop
RECURSIVE WeightedLoop(_, _, _, _)
WeightedLoop(rates, n, start_date, end_date) ==
    IF n = 0 THEN <<0, 0>>
    ELSE CHOOSE acc \in
           { IF x[2] > 0
             THEN <<x[1][1] + rates[n].rate * x[2], x[1][2] + x[2]>>
             ELSE x[1] :
               x \in { << WeightedLoop(rates, n - 1, start_date, end_date),
                          DaysEffective(rates, n, start_date, end_date) >> } } : TRUE

\* mutant of PrePeriod: the days before the first in-period rate are left out
PrePeriod_Omitted(rates, pre_period_rate, start_date) == <<0, 0>>

\* the pre-period branch: <<weighted_sum, total_weight>> it adds
PrePeriod(rates, pre_period_rate, start_date) ==
    IF rates[1].effective_date > start_date /\ pre_period_rate # None
    THEN << Val(pre_period_rate).rate * TimedeltaDays(start_date, rates[1].effective_date),
            TimedeltaDays(start_date, rates[1].effective_date) >>
    ELSE <<0, 0>>

\* CBRService.get_average_key_rate_for_period, given what its queries returned:
\* rates (the in-period list), rate_record and pre_period_rate (the two
\* get_rate_on_date(start_date) lookups)
get_average_key_rate_for_period(rates, rate_record, pre_period_rate, start_date, end_date) ==
    IF rates = <<>> THEN RateOfRecord(rate_record)
    ELSE IF TimedeltaDays(start_date, end_date) = 0 THEN Some(RatInt(rates[1].rate))
    ELSE CHOOSE average_rate \in
           { IF w[1][2] + w[2][2] = 0 THEN None
             ELSE Some(Rat(w[1][1] + w[2][1], w[1][2] + w[2][2])) :
               w \in { << WeightedLoop(rates, Len(rates), start_date, end_date),
                          PrePeriod(rates, pre_period_rate, start_date) >> } } : TRUE

\* the inputs of the model
AnnouncementDates == { PlusDays(datetime(BaseYear, 1, 1, 0), d) : d \in {0, 1, 3} }
Rates == {10, 20}
RatePoints == { RateData(d, r) : d \in AnnouncementDates, r \in Rates }
\* the lists a source returns: one point, or two (the same date twice included)
Batches == [1..1 -> RatePoints] \cup [1..2 -> RatePoints]
QueryDates == { PlusDays(datetime(BaseYear, 1, 1, 0), d) : d \in 0..MaxQueryDay }

\* [rate for rate in key_rates if start_date <= rate['date'] <= end_date]
InRange(key_rates, start_date, end_date) ==
    SelectSeq(key_rates, LAMBDA rate : start_date <= rate.date /\ rate.date <= end_date)

\* mutant of FetchFromSources: sample data stands in when every source is empty
FetchFromSources_Sample(soap, rest, xml, start_date, end_date) ==
    IF soap # <<>>
    THEN [key_rates |-> soap, calls |-> <<"fetch_key_rate_data">>]
    ELSE IF InRange(rest, start_date, end_date) # <<>>
    THEN [key_rates |-> InRange(rest, start_date, end_date),
          calls |-> <<"fetch_key_rate_data", "fetch_key_rate_data_rest">>]
    ELSE IF InRange(xml, start_date, end_date) # <<>>
    THEN [key_rates |-> InRange(xml, start_date, end_date),
          calls |-> <<"fetch_key_rate_data", "fetch_key_rate_data_rest",
                      "fetch_key_rate_data_xml">>]
    ELSE [key_rates |-> <<RateData(start_date, 16)>>,
          calls |-> <<"fetch_key_rate_data", "fetch_key_rate_data_rest",
                      "fetch_key_rate_data_xml", "generate_sample_historical_data">>]

\* mutant of FetchFromSources: every source is asked and the answers are
\* put together
FetchFromSources_Merged(soap, rest, xml, start_date, end_date) ==
    [key_rates |-> soap \o InRange(rest, start_date, end_date)
                        \o InRange(xml, start_date, end_date),
     calls |-> <<"fetch_key_rate_data", "fetch_key_rate_data_rest",
                 "fetch_key_rate_data_xml">>]

\* the source fallback of update_key_rates: key_rates as it stands before the
\* "if not key_rates: raise", and the service methods called to get it.  soap,
\* rest and xml are what the three fetchers return when they are called.
FetchFromSources(soap, rest, xml, start_date, end_date) ==
    IF soap # <<>>
    THEN [key_rates |-> soap, calls |-> <<"fetch_key_rate_data">>]
    ELSE IF InRange(rest, start_date, end_date) # <<>>
    THEN [key_rates |-> InRange(rest, start_date, end_date),
          calls |-> <<"fetch_key_rate_data", "fetch_key_rate_data_rest">>]
    ELSE [key_rates |-> InRange(xml, start_date, end_date),
          calls |-> <<"fetch_key_rate_data", "fetch_key_rate_data_rest",
                      "fetch_key_rate_data_xml">>]

\* datetime.now() of an update: the third day of the model's calendar, so that
\* the latest announcement date of the model lies after it
UpdateNows == { PlusDays(datetime(BaseYear, 1, 1, 0), 2) }

\* three sources that are up at the same time, each with a point of its own
\* inside the requested range, and any subset of them down
SourcesUp ==
    { [soap |-> s, rest |-> r, xml |-> x] :
        s \in {<<>>, << RateData(datetime(BaseYear, 1, 1, 0), 10) >>},
        r \in {<<>>, << RateData(datetime(BaseYear, 1, 2, 0), 20) >>},
        x \in {<<>>, << RateData(datetime(BaseYear, 1, 2, 0), 10) >>} }

\* what the three fetchers return when they are called.  Beside SourcesUp,
\* every batch is given by one source while the others return the empty list;
\* before the XML fetcher is called the REST fetcher returned nothing, or only
\* points outside the range.
SourceResults ==
    SourcesUp \cup
    { [soap |-> b, rest |-> <<>>, xml |-> <<>>] : b \in Batches }
    \cup { [soap |-> <<>>, rest |-> b, xml |-> <<>>] : b \in Batches }
    \cup { [soap |-> <<>>, rest |-> r, xml |-> b] :
              r \in { x \in Batches \cup {<<>>} :
                        \A now \in UpdateNows :
                            InRange(x, PlusDays(now, -DaysBack), now) = <<>> },
              b \in Batches \cup {<<>>} }

\* update_key_rates when a source returned points: they are upserted
UpdateKeyRates ==
    /\ n_updates < MaxUpdates
    /\ \E now \in UpdateNows, src \in SourceResults :
         \E f \in { FetchFromSources(src.soap, src.rest, src.xml,
                                      PlusDays(now, -DaysBack), now) } :
            /\ f.key_rates # <<>>
            /\ \E rows \in UpsertLoop(cbr_key_rates, <<>>, f.key_rates) :
                  /\ cbr_key_rates' = rows
                  /\ response' = [op |-> "update", args |-> f.key_rates,
                                  result |-> None,
                                  count |-> Some(Len(f.key_rates)),
                                  calls |-> f.calls, sources |-> src,
                                  range |-> <<PlusDays(now, -DaysBack), now>>]
    /\ n_updates' = n_updates + 1
    /\ UNCHANGED <<genVars, recalcVars, ingestVars, uploadVars>>

\* mutant of UpdateKeyRatesNoData: an empty key_rates passes the check, the
\* loop runs over nothing and 0 is returned
UpdateKeyRatesNoData_ReturnsZero ==
    /\ n_updates < MaxUpdates
    /\ \E now \in UpdateNows, src \in SourceResults :
         \E f \in { FetchFromSources(src.soap, src.rest, src.xml,
                                      PlusDays(now, -DaysBack), now) } :
            /\ f.key_rates = <<>>
            /\ response' = [op |-> "update", args |-> f.key_rates,
                            result |-> None, count |-> Some(0), calls |-> f.calls,
                            sources |-> src,
                            range |-> <<PlusDays(now, -DaysBack), now>>]
    /\ n_updates' = n_updates + 1
    /\ UNCHANGED <<cbr_key_rates, genVars, recalcVars, ingestVars, uploadVars>>

\* update_key_rates when no source returned a point: it raises
UpdateKeyRatesNoData ==
    /\ n_updates < MaxUpdates
    /\ \E now \in UpdateNows, src \in SourceResults :
         \E f \in { FetchFromSources(src.soap, src.rest, src.xml,
                                      PlusDays(now, -DaysBack), now) } :
            /\ f.key_rates = <<>>
            /\ response' = [op |-> "update_raised", args |-> f.key_rates,
                            result |-> None, count |-> None, calls |-> f.calls,
                            sources |-> src,
                            range |-> <<PlusDays(now, -DaysBack), now>>]
    /\ n_updates' = n_updates + 1
    /\ UNCHANGED <<cbr_key_rates, genVars, recalcVars, ingestVars, uploadVars>>

\* A query leaves the table as it is, so a query made after another query
\* reaches the state that query reaches when made first: the model makes each
\* query on the table as the last update left it.
Queryable == response.op \in {"none", "update", "update_raised"}

\* CBRService.get_current_key_rate
GetCurrentKeyRate ==
    /\ Queryable
    /\ \E latest_rate \in get_latest_rate(cbr_key_rates) :
         response' = [op |-> "current", args |-> <<>>,
                      result |-> RateOfRecord(latest_rate), count |-> None,
                      calls |-> <<>>]
    /\ UNCHANGED <<cbr_key_rates, n_updates, genVars, recalcVars, ingestVars, uploadVars>>

\* CBRService.get_key_rate_on_date
GetKeyRateOnDate ==
    /\ Queryable
    /\ \E target_date \in QueryDates :
         \E rate_record \in get_rate_on_date(cbr_key_rates, target_date) :
            response' = [op |-> "rate_on", args |-> <<target_date>>,
                         result |-> RateOfRecord(rate_record), count |-> None,
                         calls |-> <<>>]
    /\ UNCHANGED <<cbr_key_rates, n_updates, genVars, recalcVars, ingestVars, uploadVars>>

\* CBRService.get_average_key_rate_for_period
GetAverageKeyRateForPeriod ==
    /\ Queryable
    /\ \E start_date \in QueryDates, end_date \in QueryDates :
         \E rates \in RatesInPeriod(cbr_key_rates, start_date, end_date),
            rate_record \in get_rate_on_date(cbr_key_rates, start_date),
            pre_period_rate \in get_rate_on_date(cbr_key_rates, start_date) :
            response' = [op |-> "average", args |-> <<start_date, end_date>>,
                         result |-> get_average_key_rate_for_period(
                                       rates, rate_record, pre_period_rate,
                                       start_date, end_date),
                         count |-> None, calls |-> <<>>]
    /\ UNCHANGED <<cbr_key_rates, n_updates, genVars, recalcVars, ingestVars, uploadVars>>

\* no schedule is being generated
GenIdle ==
    /\ credit = [start_date |-> 0, end_date |-> 0, payment_frequency |-> "MONTHLY",
                 payment_type |-> "INTEREST_ONLY", principal_amount |-> 0,
                 base_rate_indicator |-> "KEY_RATE", base_rate_value |-> RatInt(0),
                 credit_spread |-> RatInt(0)]
    /\ payment_day_override = None
    /\ current_start = 0
    /\ period_num = 1
    /\ payment_entries = <<>>
    /\ gen_pc = "done"

StoreInit == StoreIdle /\ GenIdle /\ RecalcIdle /\ IngestIdle /\ UploadIdle

StoreNext ==
    \/ UpdateKeyRates
    \/ UpdateKeyRatesNoData
    \/ GetCurrentKeyRate
    \/ GetKeyRateOnDate
    \/ GetAverageKeyRateForPeriod

StoreSpec == StoreInit /\ [][StoreNext]_vars

----------------------------------------------------------------------------
(* update_key_rates run by two requests at a time.  Each request has its own
   session (get_db, database.py); its queries read the committed table, the
   rows it changed and the rows it added reach the table at its commit.  The
   key_rates of a request are what its sources returned; here they hold no
   announcement date twice. *)

\* one iteration of "for rate_data in key_rates" in session s: the query for
\* an existing row, then the change of that row or the added row
SessionUpsert(s) ==
    /\ sessions[s].pc = "loop"
    /\ sessions[s].i <= Len(sessions[s].key_rates)
    /\ \E rate_data \in { sessions[s].key_rates[sessions[s].i] } :
         IF ExistingRate(cbr_key_rates, rate_data) # {}
         THEN \E id \in ExistingRate(cbr_key_rates, rate_data) :
                sessions' = [sessions EXCEPT
                               ![s].dirty = Append(@, <<id, rate_data>>),
                               ![s].i = @ + 1]
         ELSE sessions' = [sessions EXCEPT
                             ![s].new = Append(@, NewRate(rate_data)),
                             ![s].i = @ + 1]
    /\ UNCHANGED <<genVars, storeVars, recalcVars, uploadVars>>

\* the UPDATE statements of a commit, applied to the table in order
RECURSIVE FlushDirty(_, _)
FlushDirty(rows, dirty) ==
    IF dirty = <<>> THEN rows
    ELSE FlushDirty(UpdateExisting(rows, Head(dirty)[1], Head(dirty)[2]), Tail(dirty))

\* self.db_session.commit() of session s, after its loop
SessionCommit(s) ==
    /\ sessions[s].pc = "loop"
    /\ sessions[s].i > Len(sessions[s].key_rates)
    /\ cbr_key_rates' = FlushDirty(cbr_key_rates, sessions[s].dirty) \o sessions[s].new
    /\ sessions' = [sessions EXCEPT ![s].pc = "done", ![s].dirty = <<>>,
                                    ![s].new = <<>>]
    /\ UNCHANGED <<response, n_updates, genVars, recalcVars, uploadVars>>

\* the inputs of the model: two announcement dates, two rates; a table that
\* is empty or holds the second date
IngestPoints ==
    { RateData(PlusDays(datetime(BaseYear, 1, 1, 0), d), r) :
        d \in {0, 1}, r \in Rates }

IngestBatches ==
    [1..1 -> IngestPoints]
    \cup { b \in [1..2 -> IngestPoints] : b[1].date # b[2].date }

IngestTables ==
    {<<>>} \cup UpsertLoop(<<>>, <<>>, << RateData(datetime(BaseYear, 1, 2, 0), 10) >>)

IngestInit ==
    /\ sessions \in [Sessions -> { [pc |-> "loop", key_rates |-> b, i |-> 1,
                                    dirty |-> <<>>, new |-> <<>>] :
                                      b \in IngestBatches }]
    /\ cbr_key_rates \in IngestTables
    /\ response = NoResponse
    /\ n_updates = 0
    /\ GenIdle
    /\ RecalcIdle
    /\ UploadIdle

IngestNext == \E s \in Sessions : SessionUpsert(s) \/ SessionCommit(s)

IngestSpec == IngestInit /\ [][IngestNext]_vars

----------------------------------------------------------------------------
(* Recalculation with historical rates
   (PaymentSchedule.recalculate_with_historical_rates, payment_schedule.py
   101-165; recalculate_interest_with_historical_rates, credits.py 700-793) *)

RoundScale == 100

\* CBRService.get_current_key_rate: the values it can return
get_current_key_rate(rows) ==
    { RateOfRecord(latest_rate) : latest_rate \in get_latest_rate(rows) }

\* the values CBRService.get_average_key_rate_for_period can return
AverageOver(rows, start_date, end_date) ==
    { get_average_key_rate_for_period(rates, rate_record, pre_period_rate,
                                      start_date, end_date) :
        rates \in RatesInPeriod(rows, start_date, end_date),
        rate_record \in get_rate_on_date(rows, start_date),
        pre_period_rate \in get_rate_on_date(rows, start_date) }

\* mutant of IsFuturePeriod: a period still in progress counts as future
IsFuturePeriod_ByEnd(p, now) == p.period_end_date > now

\* "if self.period_start_date > current_date"
IsFuturePeriod(p, now) == p.period_start_date > now

\* the base rates the service can answer for the period (None: no data):
\* the current rate for a future period, the period average otherwise
ResolvedRates(p, rows, now) ==
    IF IsFuturePeriod(p, now) THEN get_current_key_rate(rows)
    ELSE AverageOver(rows, p.period_start_date, p.period_end_date)

\* mutant of RecalculateInterest: the new interest is added to the stored one
RecalculateInterest_OnTop(p) ==
    IF Truthy(p.principal_amount) /\ Truthy(p.period_days)
    THEN CHOOSE q \in
           { [p EXCEPT !.interest_amount = Some(a), !.total_payment = Some(a)] :
               a \in { RatAdd(IF p.interest_amount = None THEN RatInt(0)
                              ELSE Val(p.interest_amount),
                              calculate_interest_amount(Val(p.principal_amount),
                                                        Val(p.interest_rate),
                                                        Val(p.period_days))) } } : TRUE
    ELSE p

\* "if self.principal_amount and self.period_days": interest and total payment
RecalculateInterest(p) ==
    IF Truthy(p.principal_amount) /\ Truthy(p.period_days)
    THEN CHOOSE q \in
           { [p EXCEPT !.interest_amount = Some(a), !.total_payment = Some(a)] :
               a \in { calculate_interest_amount(Val(p.principal_amount),
                                                 Val(p.interest_rate),
                                                 Val(p.period_days)) } } : TRUE
    ELSE p

\* mutant of SetRate: the period's spread is overwritten with the credit's
SetRate_WithSpread(p, rate, credit_spread) ==
    RecalculateInterest([p EXCEPT !.base_rate = Some(rate),
                                  !.interest_rate = Some(RatAdd(rate, credit_spread)),
                                  !.spread = Some(credit_spread)])

\* self.base_rate = rate; self.interest_rate = rate + credit_spread; then the
\* interest is recalculated
SetRate(p, rate, credit_spread) ==
    RecalculateInterest([p EXCEPT !.base_rate = Some(rate),
                                  !.interest_rate = Some(RatAdd(rate, credit_spread))])

\* mutant of recalculate_with_historical_rates: a period without rate data is
\* given the rate 7
recalculate_with_default_rate(p, rows, base_rate_indicator, credit_spread, now) ==
    IF base_rate_indicator # "KEY_RATE" THEN { [raised |-> FALSE, row |-> p] }
    ELSE { [raised |-> FALSE,
            row |-> SetRate(p, IF rate # None THEN Val(rate) ELSE RatInt(7),
                            credit_spread)] :
             rate \in ResolvedRates(p, rows, now) }

\* PaymentSchedule.recalculate_with_historical_rates: the outcomes of one call.
\* An indicator other than KEY_RATE and a future period without a current rate
\* return with the row as it was.  A past or current period without an average
\* reaches line 148, which uses the name logger; the module neither imports nor
\* defines it, so the call raises NameError.
recalculate_with_historical_rates(p, rows, base_rate_indicator, credit_spread, now) ==
    IF base_rate_indicator # "KEY_RATE" THEN { [raised |-> FALSE, row |-> p] }
    ELSE { IF rate # None
           THEN [raised |-> FALSE, row |-> SetRate(p, Val(rate), credit_spread)]
           ELSE [raised |-> ~IsFuturePeriod(p, now), row |-> p] :
             rate \in ResolvedRates(p, rows, now) }

\* the dict appended to recalculated_periods (the dates in ISO format are left out)
ReportEntry(old, new) ==
    [ period_number       |-> new.period_number,
      old_base_rate       |-> old.base_rate,
      new_base_rate       |-> new.base_rate,
      old_total_rate      |-> old.interest_rate,
      new_total_rate      |-> new.interest_rate,
      old_interest_amount |-> old.interest_amount,
      new_interest_amount |-> new.interest_amount,
      difference          |-> IF TruthyRat(old.interest_amount)
                              THEN RatSub(Val(new.interest_amount),
                                          Val(old.interest_amount))
                              ELSE RatInt(0) ]

\* sum(p[field] for p in entries[1..n] if p[field])
RECURSIVE SumTruthy(_, _, _)
SumTruthy(entries, field, n) ==
    IF n = 0 THEN RatInt(0)
    ELSE CHOOSE total \in
           { IF TruthyRat(entries[n][field])
             THEN RatAdd(x, Val(entries[n][field])) ELSE x :
               x \in { SumTruthy(entries, field, n - 1) } } : TRUE

\* round(x, 2): the nearest multiple of 1/100, a tie going to the even one
Round2(x) ==
    CHOOSE r \in
      { Rat(IF 2 * qr[2] > x[2] \/ (2 * qr[2] = x[2] /\ qr[1] % 2 = 1)
            THEN qr[1] + 1 ELSE qr[1], RoundScale) :
          qr \in { << (x[1] * RoundScale) \div x[2],
                      (x[1] * RoundScale) % x[2] >> } } : TRUE

\* the "summary" of the response
Summary(entries) ==
    CHOOSE summary \in
      { [ total_periods      |-> Len(entries),
          total_old_interest |-> Round2(t[1]),
          total_new_interest |-> Round2(t[2]),
          total_difference   |-> Round2(RatSub(t[2], t[1])) ] :
          t \in { << SumTruthy(entries, "old_interest_amount", Len(entries)),
                     SumTruthy(entries, "new_interest_amount", Len(entries)) >> } } :
      TRUE

\* create_credit_obligation: the generated entries are added and committed
CreateCommit ==
    /\ gen_pc = "done"
    /\ recalc_pc = "idle"
    /\ payment_schedules = <<>>
    /\ payment_entries # <<>>
    /\ payment_schedules' = payment_entries
    /\ UNCHANGED <<payment_schedule, recalculated_periods, recalc_pc,
                   recalc_response, current_date>>
    /\ UNCHANGED <<genVars, storeVars, ingestVars, uploadVars>>

\* the request finds no credit or no schedule: HTTP 404
RecalculateNotFound ==
    /\ recalc_pc = "idle"
    /\ payment_schedules = <<>>
    /\ recalc_response' = [status |-> 404, recalculated_periods |-> <<>>,
                           summary |-> None]
    /\ UNCHANGED <<payment_schedules, payment_schedule, recalculated_periods,
                   recalc_pc, current_date>>
    /\ UNCHANGED <<genVars, storeVars, ingestVars, uploadVars>>

\* the request loads the schedule, ordered by period_number, and enters the loop
RecalculateStart ==
    /\ recalc_pc = "idle"
    /\ payment_schedules # <<>>
    /\ payment_schedule' = payment_schedules
    /\ recalculated_periods' = <<>>
    /\ recalc_pc' = "loop"
    /\ UNCHANGED <<payment_schedules, recalc_response, current_date>>
    /\ UNCHANGED <<genVars, storeVars, ingestVars, uploadVars>>

\* one iteration of "for period in payment_schedule" that does not raise
RecalculatePeriod ==
    /\ recalc_pc = "loop"
    /\ Len(recalculated_periods) < Len(payment_schedule)
    /\ \E i \in { Len(recalculated_periods) + 1 } :
         \E outcome \in recalculate_with_historical_rates(
                            payment_schedule[i], cbr_key_rates,
                            credit.base_rate_indicator, credit.credit_spread,
                            current_date) :
            /\ ~outcome.raised
            /\ payment_schedule' = [payment_schedule EXCEPT ![i] = outcome.row]
            /\ recalculated_periods' =
                  Append(recalculated_periods,
                         ReportEntry(payment_schedule[i], outcome.row))
    /\ UNCHANGED <<payment_schedules, recalc_pc, recalc_response, current_date>>
    /\ UNCHANGED <<genVars, storeVars, ingestVars, uploadVars>>

\* mutant of RecalculateRaises: the periods changed before the exception are
\* committed
RecalculateRaises_KeepsChanges ==
    /\ recalc_pc = "loop"
    /\ Len(recalculated_periods) < Len(payment_schedule)
    /\ \E outcome \in recalculate_with_historical_rates(
                          payment_schedule[Len(recalculated_periods) + 1],
                          cbr_key_rates, credit.base_rate_indicator,
                          credit.credit_spread, current_date) :
          outcome.raised
    /\ payment_schedules' = payment_schedule
    /\ payment_schedule' = <<>>
    /\ recalculated_periods' = <<>>
    /\ recalc_pc' = "idle"
    /\ recalc_response' = [status |-> 500, recalculated_periods |-> <<>>,
                           summary |-> None]
    /\ UNCHANGED current_date
    /\ UNCHANGED <<genVars, storeVars, ingestVars, uploadVars>>

\* an iteration whose call raises: "except Exception" rolls the session back
\* and the request answers HTTP 500
RecalculateRaises ==
    /\ recalc_pc = "loop"
    /\ Len(recalculated_periods) < Len(payment_schedule)
    /\ \E outcome \in recalculate_with_historical_rates(
                          payment_schedule[Len(recalculated_periods) + 1],
                          cbr_key_rates, credit.base_rate_indicator,
                          credit.credit_spread, current_date) :
          outcome.raised
    /\ payment_schedule' = <<>>
    /\ recalculated_periods' = <<>>
    /\ recalc_pc' = "idle"
    /\ recalc_response' = [status |-> 500, recalculated_periods |-> <<>>,
                           summary |-> None]
    /\ UNCHANGED <<payment_schedules, current_date>>
    /\ UNCHANGED <<genVars, storeVars, ingestVars, uploadVars>>

\* after the loop: db.commit() and the report
RecalculateCommit ==
    /\ recalc_pc = "loop"
    /\ Len(recalculated_periods) = Len(payment_schedule)
    /\ payment_schedules' = payment_schedule
    /\ recalc_response' = [status |-> 200,
                           recalculated_periods |-> recalculated_periods,
                           summary |-> Some(Summary(recalculated_periods))]
    /\ payment_schedule' = <<>>
    /\ recalculated_periods' = <<>>
    /\ recalc_pc' = "idle"
    /\ UNCHANGED current_date
    /\ UNCHANGED <<genVars, storeVars, ingestVars, uploadVars>>

\* the inputs of the model: a credit of three months, paid monthly or at once;
\* tables as update_key_rates leaves them, with a point before the credit,
\* inside its first period and inside its second; requests made before the
\* credit starts, in its second period and after its end
RecalcCredits ==
    [ start_date : {datetime(BaseYear, 2, 1, 0)},
      end_date : {datetime(BaseYear, 5, 1, 0)},
      payment_frequency : {"MONTHLY", "QUARTERLY"},
      payment_type : {"INTEREST_ONLY"}, principal_amount : {1000},
      base_rate_indicator : {"KEY_RATE", "LIBOR"},
      base_rate_value : {RatInt(16)}, credit_spread : {RatInt(3)} ]

RecalcPoints ==
    { RateData(d, r) :
        d \in { datetime(BaseYear, 1, 10, 0), datetime(BaseYear, 2, 13, 0),
                datetime(BaseYear, 3, 20, 0) },
        r \in Rates }

RecalcBatches ==
    [1..1 -> RecalcPoints]
    \cup { b \in [1..2 -> RecalcPoints] : b[1].date # b[2].date }

RecalcTables ==
    {<<>>} \cup UNION { UpsertLoop(<<>>, <<>>, b) : b \in RecalcBatches }

RecalcNows ==
    { datetime(BaseYear, 1, 1, 0), datetime(BaseYear, 3, 15, 0),
      datetime(BaseYear + 1, 1, 1, 0) }

RecalcInit ==
    /\ credit \in RecalcCredits
    /\ payment_day_override = None
    /\ current_start = credit.start_date
    /\ period_num = 1
    /\ payment_entries = <<>>
    /\ gen_pc = "loop"
    /\ cbr_key_rates \in RecalcTables
    /\ response = NoResponse
    /\ n_updates = 0
    /\ payment_schedules = <<>>
    /\ payment_schedule = <<>>
    /\ recalculated_periods = <<>>
    /\ recalc_pc = "idle"
    /\ recalc_response = NoRecalcResponse
    /\ current_date \in RecalcNows
    /\ IngestIdle
    /\ UploadIdle

RecalcNext ==
    \/ GenerateIteration
    \/ GenerateReturn
    \/ CreateCommit
    \/ RecalculateNotFound
    \/ RecalculateStart
    \/ RecalculatePeriod
    \/ RecalculateRaises
    \/ RecalculateCommit

RecalcSpec == RecalcInit /\ [][RecalcNext]_vars

----------------------------------------------------------------------------
(* The stored credit and its schedule over time: update_credit_obligation
   (credits.py 586-632) and save_payment_schedule (credits.py 1108-1177),
   next to creation and recalculation *)

\* credit.total_rate: base_rate_value + credit_spread, as it is set at creation
\* (credits.py:496) and again by every update of one of the two (606-610)
total_rate(c) == RatAdd(c.base_rate_value, c.credit_spread)

\* "for field, value in update_data.items(): setattr(credit, field, value)"
ApplyUpdate(c, update_data) ==
    [ field \in DOMAIN c |->
        IF field \in DOMAIN update_data THEN update_data[field] ELSE c[field] ]

\* the request bodies of the model: one changed term each
UpdateData ==
    { [credit_spread |-> RatInt(5)],
      [end_date |-> datetime(BaseYear, 6, 1, 0)],
      [base_rate_indicator |-> "KEY_RATE"] }

\* update_credit_obligation: the sent fields are set on the credit and
\* committed; the rows of payment_schedules are not touched
UpdateCreditObligation ==
    /\ recalc_pc = "idle"
    /\ payment_schedules # <<>>
    /\ \E update_data \in UpdateData : credit' = ApplyUpdate(credit, update_data)
    /\ UNCHANGED <<payment_day_override, current_start, period_num,
                   payment_entries, gen_pc>>
    /\ UNCHANGED <<storeVars, recalcVars, ingestVars, uploadVars>>

\* the PaymentSchedule row save_payment_schedule builds from entry number i
CustomPaymentSchedule(c, entry, i) ==
    calculate_financials(
        [ period_number     |-> i,
          period_start_date |-> entry.period_start_date,
          period_end_date   |-> entry.period_end_date,
          payment_date      |-> entry.payment_date,
          principal_amount  |-> Some(entry.outstanding_balance),
          interest_rate     |-> Some(total_rate(c)),
          base_rate         |-> Some(c.base_rate_value),
          spread            |-> Some(c.credit_spread),
          period_days       |-> None,
          interest_amount   |-> None,
          total_payment     |-> None ])

\* the entries of the model: two monthly periods, one period that ends on
\* the date it starts, and the two monthly periods sent in reverse order
CustomEntries ==
    { << [ period_start_date |-> datetime(BaseYear, 2, 1, 0),
           period_end_date |-> datetime(BaseYear, 3, 1, 0),
           payment_date |-> datetime(BaseYear, 3, 1, 0),
           outstanding_balance |-> 1000 ],
         [ period_start_date |-> datetime(BaseYear, 3, 1, 0),
           period_end_date |-> datetime(BaseYear, 4, 1, 0),
           payment_date |-> datetime(BaseYear, 4, 1, 0),
           outstanding_balance |-> 500 ] >>,
      << [ period_start_date |-> datetime(BaseYear, 3, 1, 0),
           period_end_date |-> datetime(BaseYear, 3, 1, 0),
           payment_date |-> datetime(BaseYear, 3, 1, 0),
           outstanding_balance |-> 1000 ] >>,
      << [ period_start_date |-> datetime(BaseYear, 3, 1, 0),
           period_end_date |-> datetime(BaseYear, 4, 1, 0),
           payment_date |-> datetime(BaseYear, 4, 1, 0),
           outstanding_balance |-> 500 ],
         [ period_start_date |-> datetime(BaseYear, 2, 1, 0),
           period_end_date |-> datetime(BaseYear, 3, 1, 0),
           payment_date |-> datetime(BaseYear, 3, 1, 0),
           outstanding_balance |-> 1000 ] >> }

\* save_payment_schedule: the stored rows are deleted and the rows built from
\* the entries are stored in their place
SavePaymentSchedule ==
    /\ recalc_pc = "idle"
    /\ payment_schedules # <<>>
    /\ \E entries \in CustomEntries :
          payment_schedules' =
              [ i \in DOMAIN entries |-> CustomPaymentSchedule(credit, entries[i], i) ]
    /\ UNCHANGED <<payment_schedule, recalculated_periods, recalc_pc,
                   recalc_response, current_date>>
    /\ UNCHANGED <<genVars, storeVars, ingestVars, uploadVars>>

\* the monthly credits of RecalcCredits, and one whose snapshot rate and
\* spread are both 0
LifecycleCredits ==
    { c \in RecalcCredits : c.payment_frequency = "MONTHLY" }
    \cup
    [ start_date : {datetime(BaseYear, 2, 1, 0)},
      end_date : {datetime(BaseYear, 5, 1, 0)},
      payment_frequency : {"MONTHLY"}, payment_type : {"INTEREST_ONLY"},
      principal_amount : {1000}, base_rate_indicator : {"KEY_RATE"},
      base_rate_value : {RatInt(0)}, credit_spread : {RatInt(0)} ]

LifecycleTables ==
    {<<>>}
    \cup UpsertLoop(<<>>, <<>>, << RateData(datetime(BaseYear, 1, 10, 0), 10) >>)
    \cup UpsertLoop(<<>>, <<>>, << RateData(datetime(BaseYear, 1, 10, 0), 10),
                                  RateData(datetime(BaseYear, 2, 13, 0), 20) >>)
    \cup UpsertLoop(<<>>, <<>>, << RateData(datetime(BaseYear, 3, 20, 0), 20) >>)

LifecycleInit ==
    /\ credit \in LifecycleCredits
    /\ payment_day_override = None
    /\ current_start = credit.start_date
    /\ period_num = 1
    /\ payment_entries = <<>>
    /\ gen_pc = "loop"
    /\ cbr_key_rates \in LifecycleTables
    /\ response = NoResponse
    /\ n_updates = 0
    /\ payment_schedules = <<>>
    /\ payment_schedule = <<>>
    /\ recalculated_periods = <<>>
    /\ recalc_pc = "idle"
    /\ recalc_response = NoRecalcResponse
    /\ current_date \in RecalcNows
    /\ IngestIdle
    /\ UploadIdle

LifecycleNext ==
    \/ RecalcNext
    \/ UpdateCreditObligation
    \/ SavePaymentSchedule

LifecycleSpec == LifecycleInit /\ [][LifecycleNext]_vars

----------------------------------------------------------------------------
(* Generation beside a populated rate table.  generate_payment_schedule is
   run for every combination of terms while cbr_key_rates holds no, one or
   two points. *)

SnapshotCredits ==
    { c \in CreditInputs :
        /\ c.start_date = datetime(BaseYear, 1, 1, 0)
        /\ c.end_date = datetime(BaseYear + 1, 1, 1, 0) }

SnapshotInit ==
    /\ credit \in SnapshotCredits
    /\ payment_day_override \in Overrides
    /\ current_start = credit.start_date
    /\ period_num = 1
    /\ payment_entries = <<>>
    /\ gen_pc = "loop"
    /\ cbr_key_rates \in LifecycleTables
    /\ response = NoResponse
    /\ n_updates = 0
    /\ RecalcIdle
    /\ IngestIdle
    /\ UploadIdle

SnapshotSpec == SnapshotInit /\ [][GenNext]_vars

----------------------------------------------------------------------------
(* upload_credit_data (credits.py 326-480): the rows of the file are parsed
   into credits, rows that do not parse go to the error list; a schedule is
   then generated for every credit *)

MaxRows == 3

\* get_base_rate_value: the values it can return
get_base_rate_value(base_rate_indicator, rows) ==
    IF base_rate_indicator = "KEY_RATE"
    THEN { IF current_rate # None THEN Val(current_rate) ELSE RatInt(16) :
             current_rate \in get_current_key_rate(rows) }
    ELSE IF base_rate_indicator = "LIBOR" THEN {RatInt(5)}
    ELSE IF base_rate_indicator = "SOFR" THEN {Rat(9, 2)}
    ELSE {RatInt(16)}

\* CreditObligation(...) built from a row that parses
UploadedCredit(row, base_rate) ==
    [ credit_name |-> row.credit_name,
      principal_amount |-> row.principal_amount,
      start_date |-> row.start_date, end_date |-> row.end_date,
      base_rate_indicator |-> row.base_rate_indicator,
      base_rate_value |-> base_rate, credit_spread |-> row.credit_spread,
      payment_frequency |-> row.payment_frequency,
      payment_type |-> row.payment_type ]

\* "for index, row in df.iterrows()": <<credits, errors>> after the first n
\* rows.  PaymentFrequency(...) raises for a value that is no member of the
\* enum; the row then goes to errors with its line number in the file.
RECURSIVE ParseRows(_, _, _)
ParseRows(df, n, rows) ==
    IF n = 0 THEN { << <<>>, <<>> >> }
    ELSE UNION
           { IF df[n].payment_frequency \notin PaymentFrequency
             THEN { << acc[1], Append(acc[2], [row |-> n + 1]) >> }
             ELSE { << Append(acc[1], UploadedCredit(df[n], base_rate)), acc[2] >> :
                      base_rate \in get_base_rate_value(df[n].base_rate_indicator,
                                                        rows) } :
               acc \in ParseRows(df, n - 1, rows) }

\* "original_row = df.iloc[i]" for the credit enumerate(credits) gives index i
OriginalRow(df, credits, i) == df[i]

\* payment_day_override as taken from original_row: None for NaN and for a
\* day outside 1..31
RowPaymentDay(original_row) ==
    IF original_row.payment_day = None THEN None
    ELSE IF Val(original_row.payment_day) < 1 \/ Val(original_row.payment_day) > 31
    THEN None
    ELSE original_row.payment_day

\* generate_payment_schedule as a function: the entries it returns
RECURSIVE generate_payment_schedule(_, _, _, _, _)
generate_payment_schedule(c, override, cur, num, entries) ==
    IF ~(cur < c.end_date) THEN entries
    ELSE CHOOSE result \in
           { IF CapReached(num + 1) THEN Append(entries, row)
             ELSE generate_payment_schedule(c, override, NextStart(row), num + 1,
                                            Append(entries, row)) :
               row \in { NewPaymentSchedule(c, override, cur, num) } } : TRUE

\* the whole request for the file upload.df
UploadCreditData ==
    /\ upload.pc = "read"
    /\ \E parsed \in ParseRows(upload.df, Len(upload.df), cbr_key_rates) :
         upload' =
           [ pc |-> "done", df |-> upload.df,
             credits |-> parsed[1], errors |-> parsed[2],
             generated |->
               [ i \in DOMAIN parsed[1] |->
                   CHOOSE g \in
                     { [ credit_name |-> parsed[1][i].credit_name,
                         payment_day_override |-> o,
                         payment_entries |->
                           generate_payment_schedule(parsed[1][i], o,
                               parsed[1][i].start_date, 1, <<>>) ] :
                         o \in { RowPaymentDay(OriginalRow(upload.df, parsed[1], i)) } } :
                     TRUE ] ]
    /\ UNCHANGED <<genVars, storeVars, recalcVars, ingestVars>>

\* the inputs of the model: files of up to MaxRows rows, named by their
\* position; a row has a frequency of the enum or another word, and no
\* payment day, day 15, day 31 or the invalid day 0
UploadRows ==
    [ payment_frequency : {"MONTHLY", "FORTNIGHTLY"},
      payment_day : {None, Some(15), Some(31), Some(0)} ]

UploadFiles ==
    UNION { { [ i \in 1..n |->
                  [ credit_name |-> i, principal_amount |-> 1000,
                    start_date |-> datetime(BaseYear, 1, 1, 0),
                    end_date |-> datetime(BaseYear, 4, 1, 0),
                    base_rate_indicator |-> "KEY_RATE",
                    credit_spread |-> RatInt(3),
                    payment_frequency |-> f[i].payment_frequency,
                    payment_type |-> "INTEREST_ONLY",
                    payment_day |-> f[i].payment_day ] ] :
                f \in [1..n -> UploadRows] } : n \in 1..MaxRows }

UploadInit ==
    /\ upload \in { [pc |-> "read", df |-> df, credits |-> <<>>, errors |-> <<>>,
                     generated |-> <<>>] : df \in UploadFiles }
    /\ StoreIdle
    /\ GenIdle
    /\ RecalcIdle
    /\ IngestIdle

UploadNext == UploadCreditData

UploadSpec == UploadInit /\ [][UploadNext]_vars

----------------------------------------------------------------------------
(* Schedule generation: properties *)

LastEntry == payment_entries[Len(payment_entries)]

\* C1: in every schedule (any frequency, with or without payment_day_override)
\* each period ends where the next one starts, and the first period starts at
\* the credit's start_date.
C1_Contiguity ==
    /\ \A i \in 1..(Len(payment_entries) - 1) :
          payment_entries[i].period_end_date = payment_entries[i + 1].period_start_date
    /\ (payment_entries # <<>> =>
          payment_entries[1].period_start_date = credit.start_date)

\* a returned schedule of several periods, generated with a payment day
C1_Witness ==
    /\ gen_pc = "done"
    /\ credit.start_date < credit.end_date
    /\ Len(payment_entries) >= 3
    /\ payment_day_override # None

\* C2 (as claimed): the last period of every returned schedule of a credit with
\* start_date < end_date ends at the credit's end_date.
C2_LastPeriodEndsAtEndDate ==
    (gen_pc = "done" /\ credit.start_date < credit.end_date) =>
        (payment_entries # <<>> /\ LastEntry.period_end_date = credit.end_date)

\* C3: generation never holds more than SafetyCap periods, every iteration moves
\* current_start strictly forward, and the loop always comes to its return.
C3_BoundedTermination ==
    /\ [](Len(payment_entries) <= SafetyCap)
    /\ [][GenerateIteration => current_start' > current_start]_vars
    /\ <>(gen_pc = "done")

\* the cap ended the loop before the credit's end date was reached
C3_Witness ==
    /\ gen_pc = "done"
    /\ Len(payment_entries) = SafetyCap
    /\ current_start < credit.end_date

\* the <<year, month>> lying inc months after the month of dt
MonthAfter(dt, inc) ==
    CHOOSE ym \in { << idx \div 12, (idx % 12) + 1 >> :
                      idx \in { YearOf(dt) * 12 + (MonthOf(dt) - 1) + inc } } : TRUE

\* period_end_date of p falls on day day_of(last day of the month) of the
\* month lying inc months after the month p starts in
EndsInMonthAfter(p, inc, override) ==
    \E ym \in { MonthAfter(p.period_start_date, inc) } :
        /\ YearOf(p.period_end_date) = ym[1]
        /\ MonthOf(p.period_end_date) = ym[2]
        /\ DayOf(p.period_end_date) =
              (IF override = None THEN monthrange(ym[1], ym[2])
               ELSE Min(Val(override), monthrange(ym[1], ym[2])))

\* C11 (as claimed): without payment_day_override every period of a returned
\* schedule but the last ends on the last day of the month lying
\* month_increment months after the month it starts in, the last period ends
\* at end_date, and the MONTHLY credit from 1 January to 1 January of the next
\* year has exactly 12 periods.
C11_EndOfMonthDefault ==
    ( /\ gen_pc = "done"
      /\ payment_day_override = None
      /\ credit.start_date < credit.end_date )
    => /\ payment_entries # <<>>
       /\ \A i \in 1..(Len(payment_entries) - 1) :
             EndsInMonthAfter(payment_entries[i],
                              period_increment(credit.payment_frequency), None)
       /\ LastEntry.period_end_date = credit.end_date
       /\ ( /\ credit.payment_frequency = "MONTHLY"
            /\ credit.start_date = datetime(BaseYear, 1, 1, 0)
            /\ credit.end_date = datetime(BaseYear + 1, 1, 1, 0) )
          => Len(payment_entries) = 12

\* the date the period p is aimed at: the payment day (or the last day, when
\* the month is shorter) of the month lying inc months after the month p
\* starts in, at the time of day p starts at
AimedEnd(p, inc, d) ==
    CHOOSE dt \in
      { datetime(ym[1], ym[2], Min(d, monthrange(ym[1], ym[2])),
                 TickOf(p.period_start_date)) :
          ym \in { MonthAfter(p.period_start_date, inc) } } : TRUE

\* C20: in a returned schedule generated with a payment_day_override d in
\* 1..31 every period but the last ends on day min(d, last day of the month) of
\* the month lying month_increment months after the month it starts in, and
\* the last period ends at the earlier of that date and end_date.
C20_PaymentDayClamping ==
    ( /\ gen_pc = "done"
      /\ payment_day_override # None
      /\ Val(payment_day_override) \in 1..31 ) =>
        /\ \A i \in 1..(Len(payment_entries) - 1) :
              payment_entries[i].period_end_date =
                  AimedEnd(payment_entries[i],
                           period_increment(credit.payment_frequency),
                           Val(payment_day_override))
        /\ payment_entries # <<>> =>
              LastEntry.period_end_date =
                  Min(AimedEnd(LastEntry, period_increment(credit.payment_frequency),
                               Val(payment_day_override)),
                      credit.end_date)

\* a returned schedule with payment day 31 that has a period ending on a
\* shorter month's last day, rolls over the year end, and whose last period is
\* cut at end_date
C20_Witness ==
    /\ gen_pc = "done"
    /\ payment_day_override = Some(31)
    /\ \E i \in 1..(Len(payment_entries) - 1) :
          DayOf(payment_entries[i].period_end_date) < 31
    /\ \E i \in 1..(Len(payment_entries) - 1) :
          YearOf(payment_entries[i].period_end_date)
              > YearOf(payment_entries[i].period_start_date)
    /\ LastEntry.period_end_date = credit.end_date
    /\ AimedEnd(LastEntry, period_increment(credit.payment_frequency), 31)
          > credit.end_date

\* C13 (as claimed): generation called with end_date <= start_date or with
\* principal_amount <= 0 creates no period and does not return a schedule.
C13_InvalidTermsRejected ==
    (credit.end_date <= credit.start_date \/ credit.principal_amount <= 0) =>
        (gen_pc # "done" /\ payment_entries = <<>>)

\* Admissible CreditTerms of the schema: principal > 0, base rate >= 0,
\* spread >= 0, end_date after start_date.
Admissible(c) ==
    /\ c.principal_amount > 0
    /\ c.base_rate_value[1] >= 0
    /\ c.credit_spread[1] >= 0
    /\ c.end_date > c.start_date

\* C21 (as claimed): every period of a schedule generated for admissible
\* terms has period_days = end - start in days, greater than 0,
\* interest_amount = principal * (interest_rate / 100) * (period_days / 365)
\* and total_payment = interest_amount; with interest_rate = 0 both amounts
\* are 0.
C21_PeriodFinancials ==
    (gen_pc = "done" /\ Admissible(credit)) =>
        \A i \in DOMAIN payment_entries :
            \E p \in {payment_entries[i]} :
                /\ p.period_days
                      = Some(TimedeltaDays(p.period_start_date, p.period_end_date))
                /\ Val(p.period_days) > 0
                /\ p.interest_amount
                      = Some(calculate_interest_amount(Val(p.principal_amount),
                                                       Val(p.interest_rate),
                                                       Val(p.period_days)))
                /\ p.total_payment = p.interest_amount

\* C22: whatever the rate table holds, every generated period carries the
\* credit's snapshot: base_rate = base_rate_value, spread = credit_spread,
\* interest_rate = their sum, payment_date = period_end_date and
\* principal_amount = the credit's principal for every payment type; the
\* period dates follow from the terms and payment_day_override alone, and the
\* rate table is left as it was.
C22_SnapshotOnly ==
    /\ cbr_key_rates \in LifecycleTables
    /\ \A i \in DOMAIN payment_entries :
        \E p \in {payment_entries[i]} :
            /\ p.period_number = i
            /\ p.period_start_date
                  = (IF i = 1 THEN credit.start_date
                     ELSE payment_entries[i - 1].period_end_date)
            /\ p.period_end_date
                  = PeriodEnd(credit, payment_day_override, p.period_start_date)
            /\ p.base_rate = Some(credit.base_rate_value)
            /\ p.spread = Some(credit.credit_spread)
            /\ p.interest_rate
                  = Some(RatAdd(credit.base_rate_value, credit.credit_spread))
            /\ p.payment_date = p.period_end_date
            /\ p.principal_amount = Some(credit.principal_amount)

\* C22 witness: a finished BULLET schedule of several periods, generated
\* while the table's latest rate differs from the credit's snapshot.
C22_Witness ==
    /\ gen_pc = "done"
    /\ Len(payment_entries) > 1
    /\ credit.payment_type = "BULLET"
    /\ cbr_key_rates # <<>>
    /\ RatInt(cbr_key_rates[Len(cbr_key_rates)].rate) # credit.base_rate_value
    /\ LastEntry.base_rate = Some(credit.base_rate_value)

\* C30 (as claimed): the payment_day_override with which the schedule of an
\* uploaded credit is generated is the payment day of the row the credit was
\* built from, or none when that row has no day in 1..31.
C30_OwnRowPaymentDay ==
    upload.pc = "done" =>
        \A i \in DOMAIN upload.generated :
            \E r \in DOMAIN upload.df :
                /\ upload.df[r].credit_name = upload.generated[i].credit_name
                /\ upload.generated[i].payment_day_override
                      = RowPaymentDay(upload.df[r])

----------------------------------------------------------------------------
(* Key-rate store: properties *)

QueryStart == response.args[1]
QueryEnd == response.args[2]

DistinctEffectiveDates ==
    \A i, j \in DOMAIN cbr_key_rates :
        i # j => cbr_key_rates[i].effective_date # cbr_key_rates[j].effective_date

\* the sum of rate_on(d) over the n days from start_date on
RECURSIVE SumRateOn(_, _)
SumRateOn(start_date, n) ==
    IF n = 0 THEN 0
    ELSE SumRateOn(start_date, n - 1)
         + Val(CHOOSE rec \in get_rate_on_date(cbr_key_rates,
                                               PlusDays(start_date, n - 1)) : TRUE).rate

\* C4: with distinct effective dates, from < to and a point effective at or
\* before from, the average over [from, to] times the number of days equals the
\* sum of rate_on(d) over the days d of [from, to).
C4_WeightedAverage ==
    ( /\ response.op = "average"
      /\ DistinctEffectiveDates
      /\ QueryStart < QueryEnd
      /\ get_rate_on_date(cbr_key_rates, QueryStart) # {None} )
    => /\ response.result # None
       /\ Val(response.result)[1] * TimedeltaDays(QueryStart, QueryEnd)
            = Val(response.result)[2]
                * SumRateOn(QueryStart, TimedeltaDays(QueryStart, QueryEnd))

\* an average over a window that opens under an earlier rate and sees a
\* different rate take effect strictly inside it
C4_Witness ==
    /\ response.op = "average"
    /\ DistinctEffectiveDates
    /\ QueryStart < QueryEnd
    /\ \E i, j \in DOMAIN cbr_key_rates :
          /\ cbr_key_rates[i].effective_date < QueryStart
          /\ cbr_key_rates[j].effective_date > QueryStart
          /\ cbr_key_rates[j].effective_date < QueryEnd
          /\ cbr_key_rates[i].rate # cbr_key_rates[j].rate
    /\ \A k \in DOMAIN cbr_key_rates : cbr_key_rates[k].effective_date # QueryStart

\* C5 (as claimed): for any table content, the average over [d, d] is the
\* result of rate_on(d).
C5_DegenerateRange ==
    (response.op = "average" /\ QueryStart = QueryEnd) =>
        \A rec \in get_rate_on_date(cbr_key_rates, QueryStart) :
            response.result = RateOfRecord(rec)

\* C6: on an empty table the current rate, the rate on any date and the
\* average over any range are all None.
C6_NoFabrication ==
    (cbr_key_rates = <<>> /\ response.op \in {"current", "rate_on", "average"})
        => response.result = None

\* an average over a proper range asked of the empty table
C6_Witness ==
    /\ cbr_key_rates = <<>>
    /\ response.op = "average"
    /\ QueryStart < QueryEnd

\* the point of the batch that is upserted last for date d
LastFor(key_rates, d) ==
    key_rates[CHOOSE i \in DOMAIN key_rates :
                 /\ key_rates[i].date = d
                 /\ \A j \in DOMAIN key_rates : key_rates[j].date = d => j <= i]

\* C7 (as claimed): when two successive update_key_rates calls carry a point
\* of the same announcement date with different rates, the table afterwards
\* holds exactly one row of that date, with the rate and effective date of the
\* second call, and the rows of dates the second call does not carry are as
\* before.
C7_IdempotentUpsert ==
    [][ ( /\ response.op = "update"
          /\ response'.op = "update"
          /\ n_updates' = n_updates + 1 )
        => \A a \in DOMAIN response.args, b \in DOMAIN response'.args :
              ( /\ response.args[a].date = response'.args[b].date
                /\ response.args[a].rate # response'.args[b].rate )
              => /\ Cardinality({ i \in DOMAIN cbr_key_rates' :
                        cbr_key_rates'[i].date = response'.args[b].date }) = 1
                 /\ \A i \in DOMAIN cbr_key_rates' :
                       cbr_key_rates'[i].date = response'.args[b].date =>
                           cbr_key_rates'[i] =
                               NewRate(LastFor(response'.args, response'.args[b].date))
                 /\ \A i \in DOMAIN cbr_key_rates :
                       (\A k \in DOMAIN response'.args :
                            response'.args[k].date # cbr_key_rates[i].date)
                       => cbr_key_rates'[i] = cbr_key_rates[i] ]_vars

\* C8 (as claimed): the table never holds two rows of one announcement date.
C8_UniqueAnnouncementDate ==
    \A i, j \in DOMAIN cbr_key_rates :
        i # j => cbr_key_rates[i].date # cbr_key_rates[j].date

\* the last call was update_key_rates
UpdateAnswered == response.op \in {"update", "update_raised"}

\* C12: update_key_rates raises exactly when the SOAP, REST and XML sources
\* were all asked and left key_rates empty, a raising call leaves the table as
\* it was, and no call of update_key_rates calls generate_sample_historical_data.
C12_NoFabricatedHistory ==
    /\ [](UpdateAnswered =>
            /\ \A k \in DOMAIN response.calls :
                  response.calls[k] # "generate_sample_historical_data"
            /\ (response.args = <<>>) <=> (response.op = "update_raised")
            /\ (response.op = "update_raised") =>
                  response.calls = <<"fetch_key_rate_data",
                                     "fetch_key_rate_data_rest",
                                     "fetch_key_rate_data_xml">>)
    /\ [][(n_updates' # n_updates /\ response'.op = "update_raised")
            => cbr_key_rates' = cbr_key_rates]_vars

\* an update that raised on a table that already held points
C12_Witness ==
    /\ response.op = "update_raised"
    /\ cbr_key_rates # <<>>

Fetchers ==
    <<"fetch_key_rate_data", "fetch_key_rate_data_rest", "fetch_key_rate_data_xml">>

Called(f) == \E i \in DOMAIN response.calls : response.calls[i] = f

RestInRange ==
    InRange(response.sources.rest, response.range[1], response.range[2])

XmlInRange ==
    InRange(response.sources.xml, response.range[1], response.range[2])

\* C23: in every run of update_key_rates the SOAP source is asked first, the
\* REST source exactly when SOAP gave no point, the XML source exactly when
\* REST too gave no point inside [now - days_back, now]; the sources are
\* asked in that order, and the points upserted are those of the first source
\* that gave any, and of no other.
C23_SourceFallback ==
    UpdateAnswered =>
        /\ response.calls = SubSeq(Fetchers, 1, Len(response.calls))
        /\ Called("fetch_key_rate_data")
        /\ Called("fetch_key_rate_data_rest") <=> response.sources.soap = <<>>
        /\ Called("fetch_key_rate_data_xml")
              <=> (response.sources.soap = <<>> /\ RestInRange = <<>>)
        /\ response.args
              = (IF response.sources.soap # <<>> THEN response.sources.soap
                 ELSE IF RestInRange # <<>> THEN RestInRange
                 ELSE XmlInRange)

\* C23 witness: SOAP is down while REST and XML are both up with different
\* points; REST's point alone is upserted and XML is not asked.
C23_Witness ==
    /\ response.op = "update"
    /\ response.sources.soap = <<>>
    /\ RestInRange # <<>>
    /\ XmlInRange # <<>>
    /\ XmlInRange # RestInRange
    /\ response.args = RestInRange
    /\ ~Called("fetch_key_rate_data_xml")
    /\ \E i \in DOMAIN cbr_key_rates : cbr_key_rates[i].rate = RestInRange[1].rate

\* a step that is a run of update_key_rates
UpdateStep == n_updates' = n_updates + 1

\* C25 (amended): a run of update_key_rates whose batch of points is empty
\* raises, returns no count and leaves the table as it was; a run with a
\* non-empty batch returns the number of points in the batch and leaves the
\* table as the upsert of that batch makes it.
C25_EmptyBatchRaises ==
    [][ UpdateStep =>
          IF response'.args = <<>>
          THEN /\ response'.op = "update_raised"
               /\ response'.count = None
               /\ cbr_key_rates' = cbr_key_rates
          ELSE /\ response'.op = "update"
               /\ response'.count = Some(Len(response'.args))
               /\ cbr_key_rates' \in UpsertLoop(cbr_key_rates, <<>>, response'.args)
      ]_vars

\* C25 witness: a run with an empty batch has raised after an earlier run
\* had stored points, which are still there.
C25_Witness ==
    /\ response.op = "update_raised"
    /\ response.args = <<>>
    /\ response.count = None
    /\ n_updates > 1
    /\ cbr_key_rates # <<>>

\* C25 (as claimed): a run with an empty batch raises nothing, returns 0 and
\* leaves the table unchanged; a run with a non-empty batch returns the
\* number of points in the batch.
C25_EmptyBatchAccepted ==
    [][ UpdateStep =>
          IF response'.args = <<>>
          THEN /\ response'.op = "update"
               /\ response'.count = Some(0)
               /\ cbr_key_rates' = cbr_key_rates
          ELSE /\ response'.op = "update"
               /\ response'.count = Some(Len(response'.args))
      ]_vars

\* total_weight of the average over [QueryStart, QueryEnd] for one answer of
\* each query
TotalWeight(rates, pre_period_rate) ==
    WeightedLoop(rates, Len(rates), QueryStart, QueryEnd)[2]
        + PrePeriod(rates, pre_period_rate, QueryStart)[2]

\* C29 (as claimed): whenever the average over [from, to], from < to, is a
\* number computed from points that become effective inside the window, the
\* day-weights of its denominator sum to (to - from) days, also when the
\* earliest stored point becomes effective after from.
C29_FullWindowCoverage ==
    (response.op = "average" /\ QueryStart < QueryEnd) =>
        \A rates \in RatesInPeriod(cbr_key_rates, QueryStart, QueryEnd),
           pre_period_rate \in get_rate_on_date(cbr_key_rates, QueryStart) :
            (rates # <<>> /\ TotalWeight(rates, pre_period_rate) # 0) =>
                TotalWeight(rates, pre_period_rate)
                    = TimedeltaDays(QueryStart, QueryEnd)

\* C24 (as claimed): after two update_key_rates requests that ran at the same
\* time, in whatever order their steps were taken, the table holds one row
\* for every announcement date of their batches.
C24_ConcurrentUniqueness ==
    (\A s \in Sessions : sessions[s].pc = "done") =>
        \A s \in Sessions :
            \A k \in DOMAIN sessions[s].key_rates :
                Cardinality({ i \in DOMAIN cbr_key_rates :
                                cbr_key_rates[i].date = sessions[s].key_rates[k].date })
                    = 1

----------------------------------------------------------------------------
(* Recalculation: properties *)

\* the service can answer a rate for the stored period p of the credit
Resolvable(p) ==
    /\ credit.base_rate_indicator = "KEY_RATE"
    /\ None \notin ResolvedRates(p, cbr_key_rates, current_date)

C10_SkippedCount ==
    (recalc_pc = "idle" /\ recalc_response.status = 200) =>
        Val(recalc_response.summary).total_periods =
            Len(payment_schedules)
              - Cardinality({ i \in DOMAIN payment_schedules :
                                ~Resolvable(payment_schedules[i]) })

\* the fields of a period that recalculation may rewrite
RateFields(p) == << p.base_rate, p.interest_rate, p.interest_amount, p.total_payment >>

\* C17: a period whose rate cannot be resolved (indicator other than KEY_RATE,
\* future period without a current rate, past or current period without an
\* average) keeps its base_rate, interest_rate, interest_amount and
\* total_payment: in the session after its iteration, and in the stored rows
\* when the request ends.
C17_UnresolvedUntouched ==
    [][ /\ (recalc_pc = "loop" /\ recalc_pc' = "loop")
            => \A i \in DOMAIN payment_schedule :
                  ~Resolvable(payment_schedule[i])
                      => RateFields(payment_schedule'[i])
                            = RateFields(payment_schedule[i])
        /\ (recalc_pc = "loop" /\ recalc_pc' = "idle")
            => \A i \in DOMAIN payment_schedules :
                  ~Resolvable(payment_schedules[i])
                      => RateFields(payment_schedules'[i])
                            = RateFields(payment_schedules[i])
      ]_vars

\* a committed recalculation of a KEY_RATE credit that met a period without
\* rate data
C17_Witness ==
    /\ recalc_pc = "idle"
    /\ recalc_response.status = 200
    /\ credit.base_rate_indicator = "KEY_RATE"
    /\ \E i \in DOMAIN payment_schedules : ~Resolvable(payment_schedules[i])

\* the rates of the points with the greatest effective_date
LatestRates ==
    { RatInt(cbr_key_rates[k].rate) :
        k \in { k \in DOMAIN cbr_key_rates :
                  \A j \in DOMAIN cbr_key_rates :
                      cbr_key_rates[j].effective_date
                          <= cbr_key_rates[k].effective_date } }

\* C18: in a KEY_RATE credit an iteration that gives a period a rate gives a
\* period starting after now the rate of the point with the greatest
\* effective_date, and a period starting at or before now (also one that ends
\* after now) the average over its start and end dates.
C18_RegimeSelection ==
    [][ ( /\ recalc_pc = "loop"
          /\ recalc_pc' = "loop"
          /\ credit.base_rate_indicator = "KEY_RATE" )
        => \A i \in { Len(recalculated_periods) + 1 } :
              IF payment_schedule[i].period_start_date > current_date
              THEN \/ /\ cbr_key_rates = <<>>
                      /\ payment_schedule'[i] = payment_schedule[i]
                   \/ /\ cbr_key_rates # <<>>
                      /\ Val(payment_schedule'[i].base_rate) \in LatestRates
              ELSE payment_schedule'[i].base_rate
                      \in AverageOver(cbr_key_rates,
                                      payment_schedule[i].period_start_date,
                                      payment_schedule[i].period_end_date)
      ]_vars

\* a period in progress at the time of the request was given an average that
\* is not the current rate
C18_Witness ==
    /\ recalc_pc = "loop"
    /\ credit.base_rate_indicator = "KEY_RATE"
    /\ \E i \in 1..Len(recalculated_periods) :
          /\ payment_schedule[i].period_start_date <= current_date
          /\ payment_schedule[i].period_end_date > current_date
          /\ recalculated_periods[i].new_base_rate
                # recalculated_periods[i].old_base_rate
          /\ payment_schedule[i].base_rate \notin get_current_key_rate(cbr_key_rates)

\* C28: with the rate table, the credit and "now" as they were, a
\* recalculation that follows a successful recalculation stores every period
\* as it already was (base_rate, interest_rate, interest_amount and
\* total_payment included) and reports difference 0 for every period.
C28_Idempotent ==
    [][ ( /\ recalc_pc = "loop"
          /\ recalc_pc' = "idle"
          /\ recalc_response.status = 200
          /\ recalc_response'.status = 200 ) =>
            /\ payment_schedules' = payment_schedules
            /\ \A i \in DOMAIN recalc_response'.recalculated_periods :
                  RatIsZero(recalc_response'.recalculated_periods[i].difference)
      ]_vars

\* C28 witness: the response of a second run, whose old base rate is already
\* the resolved one and not the snapshot of the credit; the period has an
\* interest amount.
C28_Witness ==
    /\ recalc_response.status = 200
    /\ \E i \in DOMAIN recalc_response.recalculated_periods :
         \E en \in {recalc_response.recalculated_periods[i]} :
            /\ en.old_base_rate = en.new_base_rate
            /\ en.new_base_rate # Some(credit.base_rate_value)
            /\ TruthyRat(en.new_interest_amount)
            /\ en.old_interest_amount = en.new_interest_amount
            /\ RatIsZero(en.difference)

----------------------------------------------------------------------------
(* The stored credit and its schedule over time: properties *)

\* C14 (as claimed): when update_credit_obligation changes the end date of a
\* credit, the stored schedule afterwards ends at the new end date, and when it
\* changes the credit spread, every stored period afterwards carries the new
\* spread.
C14_UpdateRegenerates ==
    [][ /\ (credit'.end_date # credit.end_date /\ payment_schedules' # <<>>)
            => payment_schedules'[Len(payment_schedules')].period_end_date
                  = credit'.end_date
        /\ (credit'.credit_spread # credit.credit_spread)
            => \A i \in DOMAIN payment_schedules' :
                  payment_schedules'[i].spread = Some(credit'.credit_spread)
      ]_vars

\* C15 (as claimed): every stored period has interest_rate = base_rate + spread,
\* spread being the period's own field.
C15_RateIsBasePlusSpread ==
    \A i \in DOMAIN payment_schedules :
        payment_schedules[i].interest_rate =
            Some(RatAdd(Val(payment_schedules[i].base_rate),
                        Val(payment_schedules[i].spread)))

\* the fields of a period that make up the plan
ShapeOf(p) ==
    << p.period_number, p.period_start_date, p.period_end_date, p.payment_date,
       p.principal_amount, p.period_days, p.spread >>

\* the plans of the rows are the same, row by row
SameShape(rows1, rows2) ==
    /\ Len(rows1) = Len(rows2)
    /\ \A i \in DOMAIN rows1 : ShapeOf(rows1[i]) = ShapeOf(rows2[i])

\* C16: recalculation keeps period_number, the three dates, principal_amount,
\* period_days and spread of every period, and the number and order of the
\* periods: in the rows of the session after every iteration, and in the stored
\* rows when the request ends, by commit or by rollback.
C16_ShapePreserved ==
    [][ /\ (recalc_pc = "loop" /\ recalc_pc' = "loop")
            => SameShape(payment_schedule, payment_schedule')
        /\ (recalc_pc = "idle" /\ recalc_pc' = "loop")
            => payment_schedule' = payment_schedules
        /\ (recalc_pc = "loop" /\ recalc_pc' = "idle")
            => /\ SameShape(payment_schedules, payment_schedules')
               /\ recalc_response'.status = 200
                     => SameShape(payment_schedule, payment_schedules')
      ]_vars

\* a committed recalculation that gave a period a new base rate while the
\* credit's spread differs from the period's
C16_Witness ==
    /\ recalc_pc = "idle"
    /\ recalc_response.status = 200
    /\ \E i \in DOMAIN payment_schedules \cap DOMAIN recalc_response.recalculated_periods :
          /\ recalc_response.recalculated_periods[i].new_base_rate
                # recalc_response.recalculated_periods[i].old_base_rate
          /\ payment_schedules[i].spread # Some(credit.credit_spread)
          /\ payment_schedules[i].base_rate
                = recalc_response.recalculated_periods[i].new_base_rate

\* C19 (as claimed): an iteration on a period whose rate r can be resolved
\* leaves it with base_rate = r, interest_rate = r + the credit's current
\* spread, interest_amount = principal_amount * (interest_rate / 100) *
\* (period_days / 365) and total_payment = interest_amount, whatever its
\* period_days, 0 included.
C19_SuccessfulRecalculation ==
    [][ (recalc_pc = "loop" /\ recalc_pc' = "loop")
        => \A i \in { Len(recalculated_periods) + 1 } :
              Resolvable(payment_schedule[i]) =>
                 /\ payment_schedule'[i].base_rate
                       \in ResolvedRates(payment_schedule[i], cbr_key_rates,
                                         current_date)
                 /\ payment_schedule'[i].interest_rate
                       = Some(RatAdd(Val(payment_schedule'[i].base_rate),
                                     credit.credit_spread))
                 /\ payment_schedule'[i].interest_amount
                       = Some(calculate_interest_amount(
                                 Val(payment_schedule[i].principal_amount),
                                 Val(payment_schedule'[i].interest_rate),
                                 Val(payment_schedule[i].period_days)))
                 /\ payment_schedule'[i].total_payment
                       = payment_schedule'[i].interest_amount
      ]_vars


\* the sum of the "difference" of entries[1..n]
RECURSIVE SumDifference(_, _)
SumDifference(entries, n) ==
    IF n = 0 THEN RatInt(0)
    ELSE CHOOSE total \in
           { RatAdd(x, entries[n].difference) :
               x \in { SumDifference(entries, n - 1) } } : TRUE

\* total_new_interest - total_old_interest of the response, before rounding
TotalDifference(entries) ==
    RatSub(SumTruthy(entries, "new_interest_amount", Len(entries)),
           SumTruthy(entries, "old_interest_amount", Len(entries)))

\* C26 (as claimed): in every successful recalculation response the
\* per-period differences add up to total_new_interest - total_old_interest,
\* of which summary.total_difference is the rounding, also when a period had
\* interest_amount 0 or unset before.
C26_ReportConsistency ==
    recalc_response.status = 200 =>
        /\ SumDifference(recalc_response.recalculated_periods,
                         Len(recalc_response.recalculated_periods))
              = TotalDifference(recalc_response.recalculated_periods)
        /\ Val(recalc_response.summary).total_difference
              = Round2(TotalDifference(recalc_response.recalculated_periods))


\* the call for stored period i, made now, can only raise
Raises(i) ==
    \A outcome \in recalculate_with_historical_rates(
                       payment_schedules[i], cbr_key_rates,
                       credit.base_rate_indicator, credit.credit_spread,
                       current_date) : outcome.raised

\* the call for stored period i, made now, can change the period
Changes(i) ==
    \E outcome \in recalculate_with_historical_rates(
                       payment_schedules[i], cbr_key_rates,
                       credit.base_rate_indicator, credit.credit_spread,
                       current_date) :
        ~outcome.raised /\ outcome.row # payment_schedules[i]

\* C27: while the periods of a recalculation are processed the stored rows do
\* not change; the request ends either with status 200, after every period
\* has been processed, storing the processed rows at once, or with status 500
\* and the stored rows as they were before the request; when the call for the
\* next period can only raise, the request ends with status 500.
C27_AllOrNothing ==
    [][ recalc_pc = "loop" =>
          /\ recalc_pc' = "loop" => payment_schedules' = payment_schedules
          /\ recalc_pc' = "idle" =>
                \/ /\ recalc_response'.status = 200
                   /\ Len(recalculated_periods) = Len(payment_schedules)
                   /\ payment_schedules' = payment_schedule
                \/ /\ recalc_response'.status = 500
                   /\ payment_schedules' = payment_schedules
          /\ ( /\ Len(recalculated_periods) < Len(payment_schedule)
               /\ \A outcome \in recalculate_with_historical_rates(
                       payment_schedule[Len(recalculated_periods) + 1],
                       cbr_key_rates, credit.base_rate_indicator,
                       credit.credit_spread, current_date) : outcome.raised )
             => ( /\ recalc_pc' = "idle"
                  /\ recalc_response'.status = 500
                  /\ payment_schedules' = payment_schedules )
      ]_vars

\* C27 witness: a request has ended with status 500 on a schedule whose first
\* period the loop changes and whose second period raises; the stored first
\* period is as it was.
C27_Witness ==
    /\ recalc_response.status = 500
    /\ recalc_pc = "idle"
    /\ Len(payment_schedules) = 2
    /\ Changes(1)
    /\ ~Raises(1)
    /\ Raises(2)

====
